---- MODULE Spec2Model ----
(***************************************************************************)
(* A model of gomill's competitions.py: the Competition base class, its    *)
(* path resolver, its player builder and its control-file loader.          *)
(*                                                                         *)
(* Python values are records [t |-> <type tag>, v |-> <payload>].  A       *)
(* string is the sequence of its characters; a character is a TLA+ string  *)
(* (the control character \x01 is written "^A").  A dict is the sequence   *)
(* of its (key, value) pairs in its native iteration order.                *)
(***************************************************************************)
EXTENDS Integers, Sequences, FiniteSets, TLC

VARIABLES
    base_directory,   \* Competition.base_directory
    event_logger,     \* Competition.event_logger
    history_logger,   \* Competition.history_logger
    event_calls,      \* number of invocations of the event logger so far
    history_calls,    \* number of invocations of the history logger so far
    players,          \* Competition.players
    attributes,       \* the attributes the loader sets from global_settings
    global_settings,  \* the class's global_settings
    config,           \* the control-file namespace last handed to the loader
    result            \* outcome of the last operation called on the object

vars == <<base_directory, event_logger, history_logger, event_calls,
          history_calls, players, attributes, global_settings, config, result>>

----------------------------------------------------------------------------
(* Bounds of the model *)

MaxLogCalls == 1     \* invocations of each logger
MaxErrorCount == 3   \* previous_error_count handed to process_game_error
MaxCommands == 2     \* entries of a startup_gtp_commands list

----------------------------------------------------------------------------
(* Python values *)

None == [t |-> "none", v |-> <<>>]
Str(s) == [t |-> "str", v |-> s]
IntV(d) == [t |-> "int", v |-> d]
Bool(b) == [t |-> "bool", v |-> <<IF b THEN "True" ELSE "False">>]
List(l) == [t |-> "list", v |-> l]
Dict(items) == [t |-> "dict", v |-> items]
Pair(a, b) == [t |-> "tuple", v |-> <<a, b>>]
\* an object a control file substitutes for an ordinary value, whose
\* comparison and sequence methods raise TypeError
Unusual == [t |-> "unusual", v |-> <<>>]
Lit(s) == [t |-> "lit", v |-> <<s>>]

Player_config(args, kwargs) == [t |-> "Player_config", v |-> <<args, kwargs>>]
pc_args(pc) == pc.v[1]
pc_kwargs(pc) == pc.v[2]

\* keyword mappings are sequences of <<name, value>> with distinct names
HasKey(m, k) == \E i \in 1..Len(m) : m[i][1] = k
GetKey(m, k) == m[CHOOSE i \in 1..Len(m) : m[i][1] = k][2]

\* outcomes of a call: a returned value or a raised exception
Ok(val) == [exc |-> "none", msg |-> <<>>, val |-> val]
Raise(kind, msg) == [exc |-> kind, msg |-> msg, val |-> None]

log_discard == "log_discard"

----------------------------------------------------------------------------
(* Strings *)

Whitespace == {" "}
ControlChars == {"^A"}
Digits == {"1", "2", "7", "9"}
Letters == {"a", "b", "f", "h", "r", "t", "x", "_"}

\* the characters of the model in ASCII order
Alphabet == <<"^A", " ", ".", "/", "1", "2", "7", "9", "_",
              "a", "b", "f", "h", "r", "t", "x", "~">>
CharRank(c) == CHOOSE i \in 1..Len(Alphabet) : Alphabet[i] = c

startswith(s, c) == Len(s) > 0 /\ s[1] = c
endswith(s, c) == Len(s) > 0 /\ s[Len(s)] = c

\* str.find(c, start) with 1-based positions; 0 when absent
RECURSIVE find(_, _, _)
find(s, c, start) ==
    IF start > Len(s) THEN 0
    ELSE IF s[start] = c THEN start
    ELSE find(s, c, start + 1)

RECURSIVE rstrip(_, _)
rstrip(s, c) ==
    IF endswith(s, c) THEN rstrip(SubSeq(s, 1, Len(s) - 1), c) ELSE s

\* str.split(): the maximal runs of non-whitespace characters, in order
RECURSIVE split_from(_, _, _)
split_from(s, i, word) ==
    IF i > Len(s)
    THEN IF word = <<>> THEN <<>> ELSE <<Str(word)>>
    ELSE IF s[i] \in Whitespace
         THEN (IF word = <<>> THEN <<>> ELSE <<Str(word)>>)
              \o split_from(s, i + 1, <<>>)
         ELSE split_from(s, i + 1, Append(word, s[i]))
split(s) == split_from(s, 1, <<>>)

----------------------------------------------------------------------------
(* os.path *)

\* the invoking user's home directory, and the accounts ~name can name
Home == <<"/", "h">>
KnownUsers == {}

\* posixpath.expanduser on a str
expanduser(path) ==
    IF ~startswith(path, "~") THEN path
    ELSE LET f == find(path, "/", 2)
             i == IF f = 0 THEN Len(path) + 1 ELSE f
         IN IF i # 2 /\ SubSeq(path, 2, i - 1) \notin KnownUsers
            THEN path
            ELSE LET r == rstrip(Home, "/") \o SubSeq(path, i, Len(path))
                 IN IF r = <<>> THEN <<"/">> ELSE r

\* posixpath.join(a, b) for b a str; a is None or a str
join(a, b) ==
    IF startswith(b, "/") THEN Ok(Str(b))
    ELSE IF a.t # "str" THEN Raise("AttributeError", <<Lit("endswith")>>)
    ELSE IF a.v = <<>> \/ endswith(a.v, "/") THEN Ok(Str(a.v \o b))
    ELSE Ok(Str(a.v \o <<"/">> \o b))

----------------------------------------------------------------------------
(* Competition: path resolver *)

\* resolve_pathname without the call of os.path.expanduser
resolve_pathname_unexpanded(base, pathname) ==
    IF pathname.t = "none" THEN Ok(None)
    ELSE IF pathname = Str(<<>>) THEN Raise("ValueError", <<Lit("empty pathname")>>)
    ELSE IF pathname.t # "str" THEN Raise("ValueError", <<Lit("bad pathname")>>)
    ELSE IF join(base, pathname.v).exc = "none" THEN join(base, pathname.v)
    ELSE Raise("ValueError",
               <<Lit("relative path supplied but base directory isn't set")>>)

\* the second try block: whatever os.path.join raises becomes a ValueError
joined_or_error(j) ==
    IF j.exc = "none" THEN j
    ELSE Raise("ValueError",
               <<Lit("relative path supplied but base directory isn't set")>>)

resolve_pathname(base, pathname) ==
    IF pathname.t = "none" THEN Ok(None)
    ELSE IF pathname = Str(<<>>) THEN Raise("ValueError", <<Lit("empty pathname")>>)
    ELSE IF pathname.t # "str" THEN Raise("ValueError", <<Lit("bad pathname")>>)
    ELSE joined_or_error(join(base, expanduser(pathname.v)))

\* process_game_error with a retry-once policy in the base class
process_game_error_retry_once(job, previous_error_count) ==
    Ok(Pair(Bool(previous_error_count > 0), Bool(TRUE)))

\* the default (abstract) lifecycle method
process_game_error(job, previous_error_count) ==
    Raise("NotImplementedError", <<>>)

----------------------------------------------------------------------------
(* gomill.settings *)

\* Setting(name, interpreter, default): interpreter is [f |-> name, arg |-> ...]
NoDefault == [t |-> "nodefault", v |-> <<>>]
Setting(name, interpreter, default) ==
    [name |-> name, interpreter |-> interpreter, default |-> default]
I(f) == [f |-> f, arg |-> <<>>]

interpret_enum(values, value) ==
    IF value.t = "unusual" THEN Raise("TypeError", <<Lit("comparison failed")>>)
    ELSE IF value \notin values THEN Raise("ValueError", <<Lit("unknown value")>>)
    ELSE Ok(value)

interpret_bool(b) ==
    IF b.t = "bool" THEN Ok(b)
    ELSE Raise("ValueError", <<Lit("invalid True/False value")>>)

interpret_8bit_string(s) ==
    IF s.t = "str" THEN Ok(s) ELSE Raise("ValueError", <<Lit("not a string")>>)

IsIdentifier(s) ==
    /\ Len(s) > 0
    /\ s[1] \in Letters
    /\ \A i \in 1..Len(s) : s[i] \in Letters \cup Digits

interpret_identifier(s) ==
    IF s.t = "str" /\ IsIdentifier(s.v) THEN Ok(s)
    ELSE Raise("ValueError", <<Lit("not a valid identifier: "), s>>)

interpret_sequence(l) ==
    IF l.t = "list" THEN Ok(l) ELSE Raise("ValueError", <<Lit("not a sequence")>>)

\* a single string is split into its tokens; a sequence is used as it is
interpret_shlex_sequence(v) ==
    IF v.t = "str" THEN Ok(List(split(v.v)))
    ELSE IF v.t = "list" THEN Ok(v)
    ELSE Raise("ValueError", <<Lit("not a sequence")>>)

interpret_pc(v) ==
    IF v.t # "Player_config" THEN Raise("ValueError", <<Lit("not a Player")>>)
    ELSE Ok(v)

interpret_basic(f, arg, value) ==
    CASE f = "interpret_enum" -> interpret_enum(arg, value)
      [] f = "interpret_bool" -> interpret_bool(value)
      [] f = "interpret_8bit_string" -> interpret_8bit_string(value)
      [] f = "interpret_identifier" -> interpret_identifier(value)
      [] f = "interpret_sequence" -> interpret_sequence(value)
      [] f = "interpret_shlex_sequence" -> interpret_shlex_sequence(value)
      [] f = "interpret_pc" -> interpret_pc(value)

\* the order Python 2 sorts keys in: numbers before strings, strings
\* character by character
RECURSIVE StrLess(_, _)
StrLess(a, b) ==
    IF b = <<>> THEN FALSE
    ELSE IF a = <<>> THEN TRUE
    ELSE IF a[1] # b[1] THEN CharRank(a[1]) < CharRank(b[1])
    ELSE StrLess(Tail(a), Tail(b))
KeyLess(a, b) ==
    IF a.t # b.t THEN a.t = "int" ELSE StrLess(a.v, b.v)

RECURSIVE insert_sorted(_, _)
insert_sorted(item, items) ==
    IF items = <<>> THEN <<item>>
    ELSE IF KeyLess(item[1], items[1][1]) THEN <<item>> \o items
    ELSE <<items[1]>> \o insert_sorted(item, Tail(items))
RECURSIVE sorted(_)
sorted(items) ==
    IF items = <<>> THEN <<>> ELSE insert_sorted(items[1], sorted(Tail(items)))

\* interpret_map_of(key_interpreter, value_interpreter): the items sorted by
\* key, each key and value interpreted in that order
\* first: a value already computed; rest: the outcome of computing the others
Cons(first, rest) ==
    IF rest.exc # "none" THEN rest ELSE Ok(<<first>> \o rest.val)

RECURSIVE interpret_items(_, _, _)
interpret_item(kf, vf, items, k, val) ==
    IF k.exc # "none"
    THEN Raise(k.exc, <<Lit("bad key: ")>> \o k.msg)
    ELSE IF val.exc # "none"
    THEN Raise(val.exc, <<Lit("bad value for "), items[1][1], Lit(": ")>> \o val.msg)
    ELSE Cons(Pair(k.val, val.val), interpret_items(kf, vf, Tail(items)))
interpret_items(kf, vf, items) ==
    IF items = <<>> THEN Ok(<<>>)
    ELSE interpret_item(kf, vf, items,
                        interpret_basic(kf, <<>>, items[1][1]),
                        interpret_basic(vf, <<>>, items[1][2]))
AsList(r) == IF r.exc = "none" THEN Ok(List(r.val)) ELSE r
interpret_map_of(kf, vf, m) ==
    IF m.t # "dict" THEN Raise("ValueError", <<Lit("not a map")>>)
    ELSE AsList(interpret_items(kf, vf, sorted(m.v)))

interpret(setting, value) ==
    IF setting.interpreter.f = "interpret_map_of"
    THEN interpret_map_of(setting.interpreter.arg[1], setting.interpreter.arg[2],
                          value)
    ELSE interpret_basic(setting.interpreter.f, setting.interpreter.arg, value)

\* load_settings(settings, config, strict): the values by setting name, as a
\* sequence of <<name, value>> in the order of the settings
load_one(s, cfg) ==
    IF HasKey(cfg, s.name) THEN interpret(s, GetKey(cfg, s.name))
    ELSE IF s.default = NoDefault THEN Raise("ValueError", <<Lit("not specified")>>)
    ELSE Ok(s.default)

RECURSIVE load_each(_, _)
load_rest(settings, cfg, one) ==
    IF one.exc = "ValueError"
    THEN Raise("ValueError",
               <<Lit("'"), Lit(settings[1].name), Lit("': ")>> \o one.msg)
    ELSE IF one.exc # "none" THEN one
    ELSE Cons(<<settings[1].name, one.val>>, load_each(Tail(settings), cfg))
load_each(settings, cfg) ==
    IF settings = <<>> THEN Ok(<<>>)
    ELSE load_rest(settings, cfg, load_one(settings[1], cfg))

check_strict(settings, cfg, strict, r) ==
    LET names == {settings[i].name : i \in 1..Len(settings)}
        unknown == {i \in 1..Len(cfg) : cfg[i][1] \notin names}
    IN IF r.exc # "none" THEN r
       ELSE IF strict /\ unknown # {}
       THEN Raise("ValueError",
                  <<Lit("unknown setting "),
                    Lit(cfg[CHOOSE i \in unknown : \A j \in unknown : i <= j][1])>>)
       ELSE r

load_settings(settings, cfg, strict) ==
    check_strict(settings, cfg, strict, load_each(settings, cfg))

----------------------------------------------------------------------------
(* Competition: player builder *)

StringMap == [f |-> "interpret_map_of",
              arg |-> <<"interpret_8bit_string", "interpret_8bit_string">>]

\* the table with is_reliable_scorer defaulting to False
_player_settings_unreliable == <<
    Setting("command", I("interpret_shlex_sequence"), NoDefault),
    Setting("cwd", I("interpret_8bit_string"), None),
    Setting("environ", StringMap, None),
    Setting("is_reliable_scorer", I("interpret_bool"), Bool(FALSE)),
    Setting("allow_claim", I("interpret_bool"), Bool(FALSE)),
    Setting("gtp_translations", StringMap, Dict(<<>>)),
    Setting("startup_gtp_commands", I("interpret_sequence"), List(<<>>)),
    Setting("discard_stderr", I("interpret_bool"), Bool(FALSE)) >>

_player_settings == <<
    Setting("command", I("interpret_shlex_sequence"), NoDefault),
    Setting("cwd", I("interpret_8bit_string"), None),
    Setting("environ", StringMap, None),
    Setting("is_reliable_scorer", I("interpret_bool"), Bool(TRUE)),
    Setting("allow_claim", I("interpret_bool"), Bool(FALSE)),
    Setting("gtp_translations", StringMap, Dict(<<>>)),
    Setting("startup_gtp_commands", I("interpret_sequence"), List(<<>>)),
    Setting("discard_stderr", I("interpret_bool"), Bool(FALSE)) >>

\* gtp_controller.is_well_formed_gtp_word
is_well_formed_gtp_word(word) ==
    /\ word.t = "str"
    /\ Len(word.v) > 0
    /\ \A i \in 1..Len(word.v) : word.v[i] \notin ControlChars \cup Whitespace

\* the named values of a description once the builder has looked at its
\* positional argument: kwargs['command'] = args[0]
kwargs_after_build(pc) ==
    IF Len(pc_args(pc)) = 1 /\ ~HasKey(pc_kwargs(pc), "command")
    THEN Append(pc_kwargs(pc), <<"command", pc_args(pc)[1]>>)
    ELSE pc_kwargs(pc)

\* the home-directory shorthand expanded in every element of the argv
build_cmd_args_expand_all(command) ==
    IF command.t # "list"
    THEN Raise("ControlFileError", <<Lit("'command': "), Lit("not subscriptable")>>)
    ELSE IF command.v = <<>>
    THEN Raise("ControlFileError",
               <<Lit("'command': "), Lit("list index out of range")>>)
    ELSE Ok(List([i \in 1..Len(command.v) |-> Str(expanduser(command.v[i].v))]))

\* player.cmd_args = config['command'];
\* player.cmd_args[0] = os.path.expanduser(player.cmd_args[0])
build_cmd_args(command) ==
    IF command.t # "list"
    THEN Raise("ControlFileError", <<Lit("'command': "), Lit("not subscriptable")>>)
    ELSE IF command.v = <<>>
    THEN Raise("ControlFileError",
               <<Lit("'command': "), Lit("list index out of range")>>)
    ELSE IF command.v[1].t # "str"
    THEN Raise("ControlFileError", <<Lit("'command': "), Lit("no startswith")>>)
    ELSE Ok(List(<<Str(expanduser(command.v[1].v))>> \o Tail(command.v)))

\* except Exception, e: raise ControlFileError("<prefix>%s" % e)
Reraise(prefix, r) ==
    IF r.exc = "none" THEN r
    ELSE Raise("ControlFileError", <<Lit(prefix)>> \o r.msg)

build_cwd(base, cwd) == Reraise("'cwd': ", resolve_pathname(base, cwd))

\* one pass of the loop over config['startup_gtp_commands']
startup_words(v) ==
    IF v.t = "str" THEN Ok(split(v.v))
    ELSE IF v.t = "list" THEN Ok(v.v)
    ELSE Raise("TypeError", <<Lit("not iterable")>>)

\* the pair made with words[0:] in place of words[1:]
startup_pair_all_words(v, w) ==
    IF w.exc # "none" \/ ~(\A i \in 1..Len(w.val) : is_well_formed_gtp_word(w.val[i]))
    THEN Raise("ValueError", <<Lit("invalid command "), v>>)
    ELSE IF w.val = <<>>
    THEN Raise("IndexError", <<Lit("list index out of range")>>)
    ELSE Ok(Pair(w.val[1], List(w.val)))

startup_pair(v, w) ==
    IF w.exc # "none" \/ ~(\A i \in 1..Len(w.val) : is_well_formed_gtp_word(w.val[i]))
    THEN Raise("ValueError", <<Lit("invalid command "), v>>)
    ELSE IF w.val = <<>>
    THEN Raise("IndexError", <<Lit("list index out of range")>>)
    ELSE Ok(Pair(w.val[1], List(Tail(w.val))))
startup_entry(v) == startup_pair(v, startup_words(v))

RECURSIVE build_startup_from(_, _)
build_startup_next(entries, done, e) ==
    IF e.exc = "ValueError"
    THEN Raise("ControlFileError", <<Lit("'startup_gtp_commands': ")>> \o e.msg)
    ELSE IF e.exc # "none" THEN e
    ELSE build_startup_from(Tail(entries), Append(done, e.val))
build_startup_from(entries, done) ==
    IF entries = <<>> THEN Ok(List(done))
    ELSE build_startup_next(entries, done, startup_entry(entries[1]))
build_startup_gtp_commands(entries) == build_startup_from(entries.v, <<>>)

\* player.gtp_translations[cmd1] = cmd2
SetItem(d, k, val) ==
    IF \E i \in 1..Len(d) : d[i].v[1] = k
    THEN [i \in 1..Len(d) |-> IF d[i].v[1] = k THEN Pair(k, val) ELSE d[i]]
    ELSE Append(d, Pair(k, val))

RECURSIVE build_translations_from(_, _)
build_translations_from(items, done) ==
    IF items = <<>> THEN Ok(Dict(done))
    ELSE LET cmd1 == items[1].v[1]
             cmd2 == items[1].v[2]
         IN IF ~is_well_formed_gtp_word(cmd1)
            THEN Raise("ControlFileError",
                       <<Lit("'gtp_translations': "), Lit("invalid command "), cmd1>>)
            ELSE IF ~is_well_formed_gtp_word(cmd2)
            THEN Raise("ControlFileError",
                       <<Lit("'gtp_translations': "), Lit("invalid command "), cmd2>>)
            ELSE build_translations_from(Tail(items), SetItem(done, cmd1, cmd2))
build_gtp_translations(items) == build_translations_from(items.v, <<>>)

\* the builder from the command on, cfg being the loaded settings
assemble_player(code, cfg, cmd_args, cwd, startup, translations) ==
    IF cmd_args.exc # "none" THEN cmd_args
    ELSE IF cwd.exc # "none" THEN cwd
    ELSE IF startup.exc # "none" THEN startup
    ELSE IF translations.exc # "none" THEN translations
    ELSE Ok([code |-> code,
             cmd_args |-> cmd_args.val,
             cwd |-> cwd.val,
             environ |-> GetKey(cfg, "environ"),
             is_reliable_scorer |-> GetKey(cfg, "is_reliable_scorer"),
             allow_claim |-> GetKey(cfg, "allow_claim"),
             startup_gtp_commands |-> startup.val,
             gtp_translations |-> translations.val,
             discard_stderr |-> GetKey(cfg, "discard_stderr")])

player_from_settings(base, code, cfg) ==
    IF cfg.exc # "none" THEN cfg
    ELSE assemble_player(
             code, cfg.val,
             build_cmd_args(GetKey(cfg.val, "command")),
             build_cwd(base, GetKey(cfg.val, "cwd")),
             build_startup_gtp_commands(GetKey(cfg.val, "startup_gtp_commands")),
             build_gtp_translations(GetKey(cfg.val, "gtp_translations")))

\* the builder letting a named 'command' win over a positional argument
game_jobs_player_from_config_named_wins(base, code, player_config) ==
    IF Len(pc_args(player_config)) > 1
    THEN Raise("ControlFileError", <<Lit("too many arguments")>>)
    ELSE player_from_settings(
             base, code,
             load_settings(_player_settings, kwargs_after_build(player_config), TRUE))

game_jobs_player_from_config(base, code, player_config) ==
    IF Len(pc_args(player_config)) > 1
    THEN Raise("ControlFileError", <<Lit("too many arguments")>>)
    ELSE IF Len(pc_args(player_config)) = 1 /\ HasKey(pc_kwargs(player_config), "command")
    THEN Raise("ControlFileError",
               <<Lit("command specified both implicitly and explicitly")>>)
    ELSE player_from_settings(
             base, code,
             load_settings(_player_settings, kwargs_after_build(player_config), TRUE))

----------------------------------------------------------------------------
(* Competition: control-file loader *)

players_settings == <<
    Setting("players",
            [f |-> "interpret_map_of", arg |-> <<"interpret_identifier", "interpret_pc">>],
            NoDefault) >>

\* the loop over specials['players']: table is self.players so far, built
\* the codes the builder has been called for
RECURSIVE build_players(_, _, _, _)
\* the loop going on to the next entry when the builder fails
add_player_skip_failed(base, items, table, built, player) ==
    IF player.exc # "none"
    THEN build_players(base, Tail(items), table, Append(built, items[1].v[1]))
    ELSE build_players(base, Tail(items),
                       Append(table, <<items[1].v[1], player.val>>),
                       Append(built, items[1].v[1]))

add_player(base, items, table, built, player) ==
    IF player.exc # "none"
    THEN [exc |-> "ControlFileError",
          msg |-> <<Lit("player "), items[1].v[1], Lit(": ")>> \o player.msg,
          table |-> table, built |-> Append(built, items[1].v[1])]
    ELSE build_players(base, Tail(items),
                       Append(table, <<items[1].v[1], player.val>>),
                       Append(built, items[1].v[1]))
build_players(base, items, table, built) ==
    IF items = <<>>
    THEN [exc |-> "none", msg |-> <<>>, table |-> table, built |-> built]
    ELSE add_player(base, items, table, built,
                    game_jobs_player_from_config(base, items[1].v[1], items[1].v[2]))

\* what the load leaves in the namespace: the description of every code the
\* builder was called for, as the builder left it
namespace_after(cfg, built) ==
    [i \in 1..Len(cfg) |->
        IF cfg[i][1] = "players" /\ cfg[i][2].t = "dict"
        THEN <<"players",
               Dict([j \in 1..Len(cfg[i][2].v) |->
                       LET item == cfg[i][2].v[j]
                       IN IF \E k \in 1..Len(built) : built[k] = item[1]
                          THEN <<item[1],
                                 Player_config(pc_args(item[2]),
                                               kwargs_after_build(item[2]))>>
                          ELSE item])>>
        ELSE cfg[i]]

\* except ValueError, e: raise ControlFileError(str(e))
AsControlFileError(exc) == IF exc = "ValueError" THEN "ControlFileError" ELSE exc

load_players(self, cfg, attrs, loop) ==
    [exc |-> loop.exc, msg |-> loop.msg, attributes |-> attrs,
     players |-> [set |-> TRUE, table |-> loop.table],
     built |-> loop.built, namespace |-> namespace_after(cfg, loop.built)]

load_specials(self, cfg, attrs, specials) ==
    IF specials.exc # "none"
    THEN [exc |-> AsControlFileError(specials.exc), msg |-> specials.msg,
          attributes |-> attrs, players |-> self.players,
          built |-> <<>>, namespace |-> cfg]
    ELSE load_players(self, cfg, attrs,
                      build_players(self.base_directory,
                                    GetKey(specials.val, "players").v, <<>>, <<>>))

load_globals(self, cfg, to_set) ==
    IF to_set.exc # "none"
    THEN [exc |-> AsControlFileError(to_set.exc), msg |-> to_set.msg,
          attributes |-> self.attributes, players |-> self.players,
          built |-> <<>>, namespace |-> cfg]
    ELSE load_specials(self, cfg, to_set.val,
                       load_settings(players_settings, cfg, FALSE))

\* initialise_from_control_file(config) on an object whose fields are self
initialise_from_control_file(self, cfg) ==
    load_globals(self, cfg, load_settings(self.global_settings, cfg, FALSE))

----------------------------------------------------------------------------
(* Inputs *)

Loggers == {log_discard, "logger"}
Jobs == {"job1", "job2"}

Bases == {None, Str(<<>>), Str(<<"/", "b">>), Str(<<"/", "b", "/">>)}

BuildBases == {None, Str(<<"/", "b">>)}

Pathnames == {
    None, Str(<<>>), IntV(<<"7">>),
    Str(<<"/", "a">>), Str(<<"r">>), Str(<<"r", "/", "b">>), Str(<<".">>),
    Str(<<"~">>), Str(<<"~", "/", "t">>), Str(<<"~", "x", "/", "t">>) }

t1 == Str(<<"t", "1">>)
t2 == Str(<<"t", "2">>)
Codes == {t1, t2}

KW(name, value) == << <<name, value>> >>
t_cmd == Str(<<"t">>)

CommandValues == {
    t_cmd,
    Str(<<"/", "b", " ", "f">>),
    Str(<<"~", "/", "t", " ", "f">>),
    Str(<<"t", " ", "~", "/", "f">>),
    Str(<<" ", "t", " ", " ", "f", " ">>),
    Str(<<>>),
    Str(<<" ">>),
    List(<<>>),
    List(<<Str(<<"b", "/", "t">>), Str(<<"f">>)>>),
    List(<<Str(<<"~", "/", "t">>), Str(<<"~", "/", "f">>)>>),
    List(<<Str(<<"~">>), Str(<<"~">>), Str(<<"a", " ", "b">>)>>),
    IntV(<<"7">>) }

CommandDescriptions ==
    {Player_config(<<c>>, <<>>) : c \in CommandValues}
    \cup {Player_config(<<>>, KW("command", c)) : c \in CommandValues}
    \cup {Player_config(<<>>, <<>>),
          Player_config(<<t_cmd, Str(<<"f">>)>>, <<>>),
          Player_config(<<t_cmd, Str(<<"f">>)>>, KW("command", t_cmd)),
          Player_config(<<t_cmd, Str(<<"f">>), Str(<<"x">>)>>, <<>>),
          Player_config(<<t_cmd>>, KW("command", t_cmd)),
          Player_config(<<t_cmd>>, KW("command", Str(<<"f">>))),
          Player_config(<<t_cmd>>, KW("bogus", t_cmd))}

StartupEntries == {
    Str(<<"f">>),
    Str(<<"f", " ", "b", " ", "a">>),
    List(<<Str(<<"f">>), Str(<<"b">>), Str(<<"a">>)>>),
    Str(<<>>),
    Str(<<" ">>),
    List(<<>>),
    Str(<<"f", "^A", " ", "b">>) }

RECURSIVE SeqsUpTo(_, _)
SeqsUpTo(S, n) ==
    IF n = 0 THEN {<<>>}
    ELSE LET shorter == SeqsUpTo(S, n - 1)
         IN shorter \cup {Append(q, e) : q \in shorter, e \in S}

StartupDescriptions ==
    {Player_config(<<t_cmd>>, KW("startup_gtp_commands", List(q))) :
        q \in SeqsUpTo(StartupEntries, MaxCommands)}
    \cup {Player_config(<<t_cmd>>, KW("startup_gtp_commands", Str(<<"f">>)))}

BoolValues == {Bool(TRUE), Bool(FALSE), IntV(<<"1">>)}
BoolFields == {"is_reliable_scorer", "allow_claim", "discard_stderr"}

FieldDescriptions ==
    {Player_config(<<t_cmd>>, KW(f, b)) : f \in BoolFields, b \in BoolValues}
    \cup {Player_config(<<t_cmd>>,
                        KW("is_reliable_scorer", Bool(FALSE))
                        \o KW("allow_claim", Bool(TRUE))
                        \o KW("discard_stderr", Bool(TRUE)))}
    \cup {Player_config(<<t_cmd>>, KW("cwd", p)) : p \in Pathnames}
    \cup {Player_config(<<t_cmd>>, KW("environ", e)) :
            e \in {Dict(<<<<Str(<<"a">>), Str(<<"b">>)>>>>), Str(<<"a">>)}}
    \cup {Player_config(<<t_cmd>>, KW("gtp_translations", Dict(d))) :
            d \in { <<<<Str(<<"f">>), Str(<<"b">>)>>>>,
                    <<<<Str(<<"f">>), Str(<<"b">>)>>, <<Str(<<"a">>), Str(<<"x">>)>>>>,
                    <<<<Str(<<"f", "^A">>), Str(<<"b">>)>>>>,
                    <<<<Str(<<"f">>), Str(<<"b", " ">>)>>>> }}

Descriptions == CommandDescriptions \cup StartupDescriptions \cup FieldDescriptions


\* player descriptions of the control files the loader is given
L_pos == Player_config(<<t_cmd>>, <<>>)
L_named == Player_config(<<>>, KW("command", t_cmd))
L_many == Player_config(<<t_cmd, Str(<<"f">>)>>, <<>>)
L_zero == Player_config(<<t_cmd>>, KW("startup_gtp_commands", List(<<Str(<<>>)>>)))
L_str == Str(<<"t">>)
LoadValues == {L_pos, L_many, L_zero, L_str}

BadCodes == {Str(<<"9", "x">>), Str(<<"x", " ">>), IntV(<<"7">>)}

\* the items of a 'players' dict, in the dict's own iteration order
PlayerMaps ==
    {<<>>}
    \cup {<<<<c, a>>>> : c \in Codes, a \in LoadValues \cup {L_named}}
    \cup {<<<<t1, a>>, <<t2, b>>>> : a \in LoadValues, b \in LoadValues}
    \cup {<<<<t2, b>>, <<t1, a>>>> : a \in LoadValues, b \in LoadValues}

FewMaps == {<<>>, <<<<t1, L_pos>>>>, <<<<t1, L_many>>>>, <<<<t1, L_str>>>>,
            <<<<t1, L_pos>>, <<t2, L_pos>>>>}

BadCodeMaps ==
    {Append(m, <<k, L_pos>>) : m \in FewMaps, k \in BadCodes}
    \cup {<<<<k, L_pos>>>> \o m : m \in FewMaps, k \in BadCodes}

handicap_style_setting ==
    Setting("handicap_style",
            [f |-> "interpret_enum", arg |-> {Str(<<"f">>), Str(<<"r">>)}],
            Str(<<"f">>))
GlobalSettingsOfClass == {<<>>, <<handicap_style_setting>>}

Configs ==
    {KW("players", Dict(m)) : m \in PlayerMaps \cup BadCodeMaps}
    \cup {KW("handicap_style", h) \o KW("players", Dict(m)) :
            h \in {Str(<<"r">>), Str(<<"x">>), Unusual},
            m \in {<<>>, <<<<t1, L_pos>>>>, <<<<t1, L_many>>>>}}
    \cup {<<>>, KW("players", Str(<<"t">>))}

----------------------------------------------------------------------------
(* The object and its operations *)

NoResult == [op |-> "__init__", args |-> <<>>, base |-> None, exc |-> "none",
             msg |-> <<>>, val |-> None, built |-> <<>>, after |-> None]

Result(op, args, outcome) ==
    [op |-> op, args |-> args, base |-> base_directory, exc |-> outcome.exc,
     msg |-> outcome.msg, val |-> outcome.val, built |-> <<>>, after |-> None]

Init ==
    /\ base_directory = None
    /\ event_logger = log_discard
    /\ history_logger = log_discard
    /\ event_calls = 0
    /\ history_calls = 0
    /\ players = [set |-> FALSE, table |-> <<>>]
    /\ attributes = <<>>
    /\ global_settings \in GlobalSettingsOfClass
    /\ config = [given |-> FALSE, namespace |-> <<>>]
    /\ result = NoResult

SetBaseDirectory(pathname) ==
    /\ base_directory' = pathname
    /\ UNCHANGED <<event_logger, history_logger, event_calls, history_calls,
                   players, attributes, global_settings, config, result>>

ResolvePathname(pathname) ==
    /\ result' = Result("resolve_pathname", <<pathname>>,
                        resolve_pathname(base_directory, pathname))
    /\ UNCHANGED <<base_directory, event_logger, history_logger, event_calls,
                   history_calls, players, attributes, global_settings, config>>

SetEventLogger(logger) ==
    /\ event_logger' = logger
    /\ UNCHANGED <<base_directory, history_logger, event_calls, history_calls,
                   players, attributes, global_settings, config, result>>

SetHistoryLogger(logger) ==
    /\ history_logger' = logger
    /\ UNCHANGED <<base_directory, event_logger, event_calls, history_calls,
                   players, attributes, global_settings, config, result>>

LogEvent ==
    /\ event_calls < MaxLogCalls
    /\ event_calls' = event_calls + 1
    /\ UNCHANGED <<base_directory, event_logger, history_logger, history_calls,
                   players, attributes, global_settings, config, result>>

LogHistory ==
    /\ history_calls < MaxLogCalls
    /\ history_calls' = history_calls + 1
    /\ UNCHANGED <<base_directory, event_logger, history_logger, event_calls,
                   players, attributes, global_settings, config, result>>

ProcessGameError(job, previous_error_count) ==
    /\ result' = Result("process_game_error", <<job, previous_error_count>>,
                        process_game_error(job, previous_error_count))
    /\ UNCHANGED <<base_directory, event_logger, history_logger, event_calls,
                   history_calls, players, attributes, global_settings, config>>

GameJobsPlayerFromConfig(code, player_config) ==
    /\ result' = [Result("game_jobs_player_from_config", <<code, player_config>>,
                         game_jobs_player_from_config(base_directory, code,
                                                      player_config))
                  EXCEPT !.after = Player_config(pc_args(player_config),
                                                 kwargs_after_build(player_config))]
    /\ UNCHANGED <<base_directory, event_logger, history_logger, event_calls,
                   history_calls, players, attributes, global_settings, config>>

\* the loader writing a line to the event log when it has finished
InitialiseFromControlFile_logging(cfg) ==
    LET r == initialise_from_control_file(
                 [global_settings |-> global_settings,
                  base_directory |-> base_directory,
                  attributes |-> attributes,
                  players |-> players], cfg)
    IN /\ attributes' = r.attributes
       /\ players' = r.players
       /\ config' = [given |-> TRUE, namespace |-> r.namespace]
       /\ result' = [op |-> "initialise_from_control_file", args |-> <<cfg>>,
                     base |-> base_directory, exc |-> r.exc, msg |-> r.msg,
                     val |-> None, built |-> r.built, after |-> None]
       /\ event_calls' = event_calls + 1
       /\ UNCHANGED <<base_directory, event_logger, history_logger,
                      history_calls, global_settings>>

InitialiseFromControlFile(cfg) ==
    LET r == initialise_from_control_file(
                 [global_settings |-> global_settings,
                  base_directory |-> base_directory,
                  attributes |-> attributes,
                  players |-> players], cfg)
    IN /\ attributes' = r.attributes
       /\ players' = r.players
       /\ config' = [given |-> TRUE, namespace |-> r.namespace]
       /\ result' = [op |-> "initialise_from_control_file", args |-> <<cfg>>,
                     base |-> base_directory, exc |-> r.exc, msg |-> r.msg,
                     val |-> None, built |-> r.built, after |-> None]
       /\ UNCHANGED <<base_directory, event_logger, history_logger, event_calls,
                      history_calls, global_settings>>

\* the loader called once more with the namespace it was given before
InitialiseAgain ==
    /\ config.given
    /\ InitialiseFromControlFile(config.namespace)

----------------------------------------------------------------------------
(* Specifications *)

SetLoggers ==
    \/ \E l \in Loggers : SetEventLogger(l)
    \/ \E l \in Loggers : SetHistoryLogger(l)

\* the lifecycle object: base directory, path resolver, log sinks, job errors
NextLifecycle ==
    \/ \E p \in Bases : SetBaseDirectory(p)
    \/ \E p \in Pathnames : ResolvePathname(p)
    \/ \E j \in Jobs, n \in 0..MaxErrorCount : ProcessGameError(j, n)
    \/ SetLoggers
    \/ LogEvent
    \/ LogHistory
SpecLifecycle == Init /\ [][NextLifecycle]_vars

\* the player builder called on raw player descriptions
NextBuild ==
    \/ \E p \in BuildBases : SetBaseDirectory(p)
    \/ \E d \in Descriptions : GameJobsPlayerFromConfig(t1, d)
SpecBuild == Init /\ [][NextBuild]_vars

\* the control-file loader, called before or after the log sinks are attached
NextLoad ==
    \/ \E cfg \in Configs : InitialiseFromControlFile(cfg)
    \/ InitialiseAgain
    \/ SetLoggers
SpecLoad == Init /\ [][NextLoad]_vars

Next == NextLifecycle \/ NextBuild \/ NextLoad
Spec == Init /\ [][Next]_vars

----------------------------------------------------------------------------
(* Properties *)

IsCall(op) == result.op = op

C2_OnlyControlFileError ==
    IsCall("initialise_from_control_file") =>
        result.exc \in {"none", "ControlFileError"}

\* the pathname after expansion of the home-directory shorthand
C3_Expanded(pathname) == expanduser(pathname.v)
C3_Absolute(pathname) == startswith(C3_Expanded(pathname), "/")

\* what resolve_pathname does to a string, sep(base) being what is put
\* between the base directory and a relative path
C3_StringCases(sep(_)) ==
    LET pathname == result.args[1]
    IN IF pathname.v = <<>>
       THEN result.exc = "ValueError"
       ELSE IF C3_Absolute(pathname)
       THEN result.exc = "none" /\ result.val = Str(C3_Expanded(pathname))
       ELSE IF result.base # None
       THEN /\ result.exc = "none"
            /\ result.val = Str(result.base.v \o sep(result.base.v)
                                \o C3_Expanded(pathname))
       ELSE result.exc = "ValueError"

C3_Cases(sep(_)) ==
    IsCall("resolve_pathname") =>
        /\ result.exc \in {"none", "ValueError"}
        /\ result.args[1] = None => (result.exc = "none" /\ result.val = None)
        /\ result.args[1].t = "str" => C3_StringCases(sep)

C3_Slash(base) == <<"/">>
C3_JoinSeparator(base) ==
    IF base = <<>> \/ endswith(base, "/") THEN <<>> ELSE <<"/">>

\* a call of resolve_pathname leaves base_directory as it was
C3_BaseUnchanged ==
    [][result' # result /\ result'.op = "resolve_pathname"
       => base_directory' = base_directory]_vars

\* C3 as stated: a relative path with a base directory set gives
\* base + '/' + path.
C3_Original == C3_Cases(C3_Slash)

\* C3: resolve_pathname returns None for None, fails on the empty string,
\* else expands the home-directory shorthand, returns an absolute path as it
\* is, joins a relative path to a set base directory as os.path.join does
\* (base + '/' + path, or base + path when base is empty or ends in '/'),
\* and fails on a relative path with no base directory; every failure is a
\* ValueError and base_directory is left unchanged.
C3_ResolvePathname == []C3_Cases(C3_JoinSeparator) /\ C3_BaseUnchanged

\* '.' resolved against the base directory /b, and a home-relative path
\* resolved with no base directory set
C3_Witness ==
    /\ IsCall("resolve_pathname")
    /\ \/ /\ result.args[1] = Str(<<".">>)
          /\ result.base = Str(<<"/", "b">>)
          /\ result.val = Str(<<"/", "b", "/", ".">>)
       \/ /\ result.args[1] = Str(<<"~", "/", "t">>)
          /\ result.base = None
          /\ result.val = Str(Home \o <<"/", "t">>)

----------------------------------------------------------------------------
(* Properties of the player builder *)

IsBuild == IsCall("game_jobs_player_from_config")
Description == result.args[2]
Built == IsBuild /\ result.exc = "none"
NamedOnly(names) ==
    \A i \in 1..Len(pc_kwargs(Description)) : pc_kwargs(Description)[i][1] \in names

\* the command value of the description, where it has exactly one
HasCommand ==
    \/ Len(pc_args(Description)) = 1 /\ ~HasKey(pc_kwargs(Description), "command")
    \/ Len(pc_args(Description)) = 0 /\ HasKey(pc_kwargs(Description), "command")
Command ==
    IF Len(pc_args(Description)) = 1 THEN pc_args(Description)[1]
    ELSE GetKey(pc_kwargs(Description), "command")
\* the argv a command value stands for
Argv == IF Command.t = "str" THEN split(Command.v) ELSE Command.v
FailsWith(kind, prefix) ==
    result.exc = kind /\ Len(result.msg) > 0 /\ result.msg[1] = Lit(prefix)

\* C4: a built player's cmd_args is the argv of the command value with the
\* home-directory shorthand expanded in its first element only, and an empty
\* argv fails the build with a ControlFileError starting "'command': ".
C4_CmdArgs ==
    /\ Built =>
         /\ HasCommand /\ Argv # <<>>
         /\ result.val.cmd_args = List(<<Str(expanduser(Argv[1].v))>> \o Tail(Argv))
    /\ (IsBuild /\ HasCommand /\ NamedOnly({"command"})
        /\ Command.t \in {"str", "list"} /\ Argv = <<>>)
         => FailsWith("ControlFileError", "'command': ")

\* "~/t f" has given [home + "/t", "f"], a list has kept its later "~/f",
\* and an empty command has been refused
C4_Witness ==
    \/ /\ Built
       /\ Command = Str(<<"~", "/", "t", " ", "f">>)
       /\ result.val.cmd_args = List(<<Str(Home \o <<"/", "t">>), Str(<<"f">>)>>)
    \/ /\ Built
       /\ Command = List(<<Str(<<"~", "/", "t">>), Str(<<"~", "/", "f">>)>>)
       /\ result.val.cmd_args = List(<<Str(Home \o <<"/", "t">>),
                                       Str(<<"~", "/", "f">>)>>)
    \/ /\ IsBuild /\ HasCommand /\ Command = Str(<<" ">>)
       /\ FailsWith("ControlFileError", "'command': ")

\* C5: more than one positional argument, or one together with a named
\* 'command', is refused with a ControlFileError and no Player; one
\* positional argument alone is used as the command value.
C5_PositionalCommand ==
    IsBuild =>
        /\ Len(pc_args(Description)) > 1
             => result.exc = "ControlFileError" /\ result.val = None
        /\ (Len(pc_args(Description)) = 1 /\ HasKey(pc_kwargs(Description), "command"))
             => result.exc = "ControlFileError" /\ result.val = None
        /\ (Len(pc_args(Description)) = 1 /\ ~HasKey(pc_kwargs(Description), "command"))
             => /\ GetKey(pc_kwargs(result.after), "command") = pc_args(Description)[1]
                /\ result.exc = "none" =>
                     result.val.cmd_args =
                         List(<<Str(expanduser(Argv[1].v))>> \o Tail(Argv))

\* a description with a positional and a named command has been refused
C5_Witness ==
    /\ IsBuild
    /\ Len(pc_args(Description)) = 1
    /\ HasKey(pc_kwargs(Description), "command")
    /\ GetKey(pc_kwargs(Description), "command") # pc_args(Description)[1]
    /\ result.exc = "ControlFileError"

\* the startup_gtp_commands entries of a description that names nothing else
HasStartupList ==
    /\ IsBuild
    /\ pc_args(Description) = <<t_cmd>>
    /\ NamedOnly({"startup_gtp_commands"})
    /\ HasKey(pc_kwargs(Description), "startup_gtp_commands")
    /\ GetKey(pc_kwargs(Description), "startup_gtp_commands").t = "list"
StartupList == GetKey(pc_kwargs(Description), "startup_gtp_commands").v
Tokens(entry) == IF entry.t = "str" THEN split(entry.v) ELSE entry.v
Invalid(entry) ==
    \/ Tokens(entry) = <<>>
    \/ \E i \in 1..Len(Tokens(entry)) : ~is_well_formed_gtp_word(Tokens(entry)[i])
FirstInvalid ==
    CHOOSE i \in 1..Len(StartupList) :
        Invalid(StartupList[i]) /\ \A j \in 1..(i - 1) : ~Invalid(StartupList[j])

\* C6: a startup_gtp_commands entry with an ill-formed token, or with no
\* token at all, fails the build with a ControlFileError that starts
\* "'startup_gtp_commands': invalid command" and names the entry.
C6_InvalidStartupCommand ==
    (HasStartupList /\ \E i \in 1..Len(StartupList) : Invalid(StartupList[i]))
        => /\ FailsWith("ControlFileError", "'startup_gtp_commands': ")
           /\ result.msg = <<Lit("'startup_gtp_commands': "), Lit("invalid command "),
                             StartupList[FirstInvalid]>>

\* C7: a valid startup_gtp_commands list of n entries gives n pairs in the
\* order of the entries, pair i being (first token, remaining tokens) of
\* entry i.
C7_StartupCommands ==
    (HasStartupList /\ \A i \in 1..Len(StartupList) : ~Invalid(StartupList[i]))
        => /\ result.exc = "none"
           /\ result.val.startup_gtp_commands =
                List([i \in 1..Len(StartupList) |->
                        Pair(Tokens(StartupList[i])[1],
                             List(Tail(Tokens(StartupList[i]))))])

\* 'f b a' and ['f', 'b', 'a'] have given the same pair, and 'f' has given
\* ('f', [])
C7_Witness ==
    /\ HasStartupList
    /\ \/ /\ StartupList = <<Str(<<"f", " ", "b", " ", "a">>),
                             List(<<Str(<<"f">>), Str(<<"b">>), Str(<<"a">>)>>)>>
          /\ result.val.startup_gtp_commands.v[1]
               = Pair(Str(<<"f">>), List(<<Str(<<"b">>), Str(<<"a">>)>>))
          /\ result.val.startup_gtp_commands.v[2]
               = result.val.startup_gtp_commands.v[1]
       \/ /\ StartupList = <<Str(<<"f">>)>>
          /\ result.val.startup_gtp_commands = List(<<Pair(Str(<<"f">>), List(<<>>))>>)

C9_Default(field) ==
    CASE field = "is_reliable_scorer" -> Bool(TRUE)
      [] field = "allow_claim" -> Bool(FALSE)
      [] field = "discard_stderr" -> Bool(FALSE)
C9_Field(player, field) ==
    CASE field = "is_reliable_scorer" -> player.is_reliable_scorer
      [] field = "allow_claim" -> player.allow_claim
      [] field = "discard_stderr" -> player.discard_stderr

\* C9: a built player has the default of every boolean field its description
\* omits (is_reliable_scorer true, allow_claim false, discard_stderr false)
\* and exactly the true or false the description gives; cwd and environ
\* omitted are None.
C9_BooleanFields ==
    Built =>
        /\ \A f \in BoolFields :
             /\ ~HasKey(pc_kwargs(Description), f)
                  => C9_Field(result.val, f) = C9_Default(f)
             /\ \A b \in BOOLEAN :
                  (/\ HasKey(pc_kwargs(Description), f)
                   /\ GetKey(pc_kwargs(Description), f) = Bool(b))
                  => C9_Field(result.val, f) = Bool(b)
        /\ ~HasKey(pc_kwargs(Description), "cwd") => result.val.cwd = None
        /\ ~HasKey(pc_kwargs(Description), "environ") => result.val.environ = None

\* a player built from is_reliable_scorer=False alone
C9_Witness ==
    /\ Built
    /\ pc_kwargs(Description) = KW("is_reliable_scorer", Bool(FALSE))
    /\ result.val.is_reliable_scorer = Bool(FALSE)
    /\ result.val.allow_claim = Bool(FALSE)
    /\ result.val.discard_stderr = Bool(FALSE)
    /\ result.val.cwd = None

----------------------------------------------------------------------------
(* Properties of the control-file loader *)

IsLoad == IsCall("initialise_from_control_file")
Namespace == result.args[1]
\* the load has got as far as the entries of a 'players' dict
ReachedPlayers ==
    /\ IsLoad
    /\ HasKey(Namespace, "players")
    /\ GetKey(Namespace, "players").t = "dict"
    /\ load_settings(global_settings, Namespace, FALSE).exc = "none"
Items == GetKey(Namespace, "players").v
ItemsOf(S) == {Items[i][1] : i \in S}

ValidCode(code) == code.t = "str" /\ IsIdentifier(code.v)
InvalidEntries ==
    {i \in 1..Len(Items) :
        ~ValidCode(Items[i][1]) \/ Items[i][2].t # "Player_config"}
InvalidCodes == {i \in 1..Len(Items) : ~ValidCode(Items[i][1])}
FailingBuilds ==
    {i \in 1..Len(Items) :
        /\ Items[i][2].t = "Player_config"
        /\ game_jobs_player_from_config(result.base, Items[i][1], Items[i][2]).exc
             # "none"}
Smallest(codes) == CHOOSE c \in codes : \A d \in codes : d = c \/ KeyLess(c, d)
Names(code) == \E i \in 1..Len(result.msg) : result.msg[i] = code
Ascending(codes) ==
    \A i \in 1..Len(codes) : \A j \in (i + 1)..Len(codes) : KeyLess(codes[i], codes[j])
Range(q) == {q[i] : i \in 1..Len(q)}

LoaderStep ==
    /\ result'.op = "initialise_from_control_file"
    /\ <<result, config, players, attributes>>' # <<result, config, players, attributes>>

\* C10: no call of initialise_from_control_file, failing or not, invokes the
\* event logger or the history logger or changes which loggers are attached.
C10_LoaderDoesNotLog ==
    [][LoaderStep => UNCHANGED <<event_logger, history_logger,
                                 event_calls, history_calls>>]_vars

\* a load has failed and a load has succeeded with both loggers attached
C10_Witness ==
    /\ IsLoad
    /\ event_logger # log_discard
    /\ history_logger # log_discard
    /\ event_calls = 0 /\ history_calls = 0
    /\ result.exc = "ControlFileError"
    /\ players.set /\ Len(players.table) = 2

\* a call of the loader with the namespace object of the previous call, made
\* after that call succeeded
SecondLoad ==
    /\ IsLoad
    /\ config.given
    /\ result.exc = "none"
    /\ LoaderStep
    /\ result'.args[1] = config.namespace

\* C11: building players leaves every raw player description (positional args
\* and named kwargs) unchanged, so a second call of
\* initialise_from_control_file with the same config namespace succeeds
\* whenever the first call succeeded and produces an equal players table.
C11_RawDescriptionsUnchanged ==
    /\ [](IsLoad => config.namespace = Namespace)
    /\ [][SecondLoad => /\ result'.exc = "none"
                        /\ players' = players]_vars

====
